---- MODULE Spec2Model ----
(***************************************************************************)
(* Model of etl.py: the song / log ETL that builds the songs, artists,     *)
(* users, time and songplays tables and writes each one, in overwrite      *)
(* mode, to parquet storage.                                               *)
(*                                                                         *)
(* A DataFrame is a bag (multiset) of rows; a row is a record.  SQL NULL   *)
(* is the value NULL in string columns and NullNum in numeric columns; a   *)
(* comparison involving a null is never TRUE.                              *)
(***************************************************************************)
EXTENDS Bags, FiniteSets, Integers, Sequences, TLC

\* ---------------------------------------------------------------- bounds
MaxSongs == 2        \* song records read in one run
MaxEvents == 2       \* event records read in one run
PartitionSize == 1   \* event records per input partition

\* ----------------------------------------------------------- SQL values
NULL == "<null>"
NullNum == 0 - 1

SqlEqStr(a, b) == a # NULL /\ b # NULL /\ a = b
SqlNeStr(a, b) == a # NULL /\ b # NULL /\ a # b
SqlEqNum(a, b) == a # NullNum /\ b # NullNum /\ a = b

\* --------------------------------------------------- DataFrame operators
RECURSIVE SumOver(_, _)
SumOver(S, B) ==
    IF S = {} THEN 0
    ELSE LET x == CHOOSE y \in S : TRUE IN B[x] + SumOver(S \ {x}, B)

\* the rows f[i], one per element i of the domain of f
BagOver(f) ==
    [x \in {f[i] : i \in DOMAIN f} |->
        Cardinality({i \in DOMAIN f : f[i] = x})]

\* DataFrame.select: one output row f[b] per input row b
Select(B, f) ==
    [x \in {f[b] : b \in DOMAIN B} |->
        SumOver({b \in DOMAIN B : f[b] = x}, B)]

\* DataFrame.filter: keeps the rows on which the predicate is TRUE, given
\* as the set of those rows
Filter(B, kept) == [b \in kept |-> B[b]]

\* DataFrame.dropDuplicates
DropDuplicates(B) == [b \in DOMAIN B |-> 1]

\* SQL JOIN ... ON, given the pairs of rows on which the condition is TRUE
InnerJoin(L, R, on) == [p \in on |-> L[p[1]] * R[p[2]]]

\* SQL LEFT JOIN ... ON: an unmatched left row is kept, padded with nulls
LeftJoin(L, R, on, nullRow) ==
    LET alone == {l \in DOMAIN L : \A r \in DOMAIN R : <<l, r>> \notin on}
    IN  [p \in on \cup {<<l, nullRow>> : l \in alone} |->
            IF p \in on THEN L[p[1]] * R[p[2]] ELSE L[p[1]]]

Count(B) == SumOver(DOMAIN B, B)

\* ------------------------------------------------------------ userid_int
\* A raw userId is a string, modelled as a sequence of one-character strings.
Whitespace == {" ", "\t"}
Digits == {"0", "1", "2", "3", "4", "5", "6", "7", "8", "9"}
Signs == {"+", "-"}

DigitValue(c) ==
    CASE c = "0" -> 0 [] c = "1" -> 1 [] c = "2" -> 2 [] c = "3" -> 3
      [] c = "4" -> 4 [] c = "5" -> 5 [] c = "6" -> 6 [] c = "7" -> 7
      [] c = "8" -> 8 [] c = "9" -> 9

RECURSIVE LStrip(_)
LStrip(s) ==
    IF s # <<>> /\ Head(s) \in Whitespace THEN LStrip(Tail(s)) ELSE s

RECURSIVE RStrip(_)
RStrip(s) ==
    IF s # <<>> /\ s[Len(s)] \in Whitespace
    THEN RStrip(SubSeq(s, 1, Len(s) - 1)) ELSE s

\* str.strip()
strip(s) == LStrip(RStrip(s))

RECURSIVE DecimalValue(_)
DecimalValue(s) ==
    IF s = <<>> THEN 0
    ELSE 10 * DecimalValue(SubSeq(s, 1, Len(s) - 1)) + DigitValue(s[Len(s)])

Unsigned(s) == IF s # <<>> /\ Head(s) \in Signs THEN Tail(s) ELSE s

\* int(s) raises ValueError unless s is an optional sign and then digits
IntRaises(s) ==
    \/ Unsigned(s) = <<>>
    \/ \E i \in DOMAIN Unsigned(s) : Unsigned(s)[i] \notin Digits

int(s) ==
    IF s # <<>> /\ Head(s) = "-" THEN 0 - DecimalValue(Unsigned(s))
    ELSE DecimalValue(Unsigned(s))

\* the udf  lambda x: int(x.strip())  raises on this raw userId
UseridRaises(x) == IntRaises(strip(x))

userid_int(x) == int(strip(x))

\* ------------------------------------------- get_timestamp, get_datetime
\* int(int(x) / 1000): epoch milliseconds to whole epoch seconds
get_timestamp(x) == x \div 1000

\* offset of the executing machine's local time zone from UTC, in seconds
LocalUtcOffset == 0 - 8 * 3600

\* days since 1970-01-01 of the civil date y-m-d (proleptic Gregorian)
DaysFromCivil(y, m, d) ==
    LET yy == IF m <= 2 THEN y - 1 ELSE y
        era == yy \div 400
        yoe == yy - era * 400
        mp == IF m > 2 THEN m - 3 ELSE m + 9
        doy == (153 * mp + 2) \div 5 + d - 1
        doe == yoe * 365 + yoe \div 4 - yoe \div 100 + doy
    IN  era * 146097 + doe - 719468

\* the civil date of a day number, as [year, month, day]
CivilFromDays(z0) ==
    LET z == z0 + 719468
        era == z \div 146097
        doe == z - era * 146097
        yoe == (doe - doe \div 1460 + doe \div 36524 - doe \div 146096) \div 365
        doy == doe - (365 * yoe + yoe \div 4 - yoe \div 100)
        mp == (5 * doy + 2) \div 153
        d == doy - (153 * mp + 2) \div 5 + 1
        m == IF mp < 10 THEN mp + 3 ELSE mp - 9
        y == yoe + era * 400 + (IF m <= 2 THEN 1 ELSE 0)
    IN  [year |-> y, month |-> m, day |-> d]

\* ISO day of week of a day number, Monday = 1 .. Sunday = 7
IsoWeekday(days) == ((days + 3) % 7) + 1

IsLeap(y) == (y % 4 = 0 /\ y % 100 # 0) \/ y % 400 = 0

\* ISO weeks of year y: 53 when 1 January is a Thursday, or a Wednesday of
\* a leap year
IsoWeeksIn(y) ==
    LET jan1 == IsoWeekday(DaysFromCivil(y, 1, 1))
    IN  IF jan1 = 4 \/ (jan1 = 3 /\ IsLeap(y)) THEN 53 ELSE 52

\* datetime.fromtimestamp(x).strftime('%Y-%m-%d %H:%M:%S'): the local
\* wall-clock time of epoch second x, kept as its fields
get_datetime(x) ==
    LET local == x + LocalUtcOffset
        days == local \div 86400
        civil == CivilFromDays(days)
    IN  [year |-> civil.year, month |-> civil.month, day |-> civil.day,
         hour |-> (local % 86400) \div 3600,
         minute |-> (local % 3600) \div 60,
         second |-> local % 60,
         days |-> days]

\* F.hour, F.dayofmonth, F.month, F.year of the date column
hour(date) == date.hour
dayofmonth(date) == date.day
month(date) == date.month
year(date) == date.year

\* F.weekofyear: the ISO 8601 week number
weekofyear(date) ==
    LET ordinal == date.days - DaysFromCivil(date.year, 1, 1) + 1
        w == (ordinal - IsoWeekday(date.days) + 10) \div 7
    IN  IF w < 1 THEN IsoWeeksIn(date.year - 1)
        ELSE IF w > IsoWeeksIn(date.year) THEN 1
        ELSE w

\* F.date_format(date, 'E'): abbreviated day name
weekday(date) ==
    <<"Mon", "Tue", "Wed", "Thu", "Fri", "Sat", "Sun">>[IsoWeekday(date.days)]

\* ----------------------------------------------------- process_song_data
\* song_data is the bag of records that spark.read.json yields under
\* song_data_struct_type.  The schema names the column artist_lattitude,
\* which no input field carries, so that column is always null.

\* mutant of songs_table: the dropDuplicates call is missing
songs_table_KeepsDuplicates(df_song_data) ==
    LET selected ==
            Select(df_song_data,
                   [r \in DOMAIN df_song_data |->
                       [song_id |-> r.song_id, title |-> r.title,
                        artist_id |-> r.artist_id, year |-> r.year,
                        duration |-> r.duration]])
    IN  Filter(selected, {r \in DOMAIN selected : SqlNeStr(r.song_id, "")})

songs_table(df_song_data) ==
    LET selected ==
            Select(df_song_data,
                   [r \in DOMAIN df_song_data |->
                       [song_id |-> r.song_id, title |-> r.title,
                        artist_id |-> r.artist_id, year |-> r.year,
                        duration |-> r.duration]])
    IN  DropDuplicates(
            Filter(selected,
                   {r \in DOMAIN selected : SqlNeStr(r.song_id, "")}))

artists_table(df_song_data) ==
    LET selected ==
            Select(df_song_data,
                   [r \in DOMAIN df_song_data |->
                       [artist_id |-> r.artist_id,
                        name |-> r.artist_name,
                        location |-> r.artist_location,
                        lattitude |-> r.artist_lattitude,
                        longitude |-> r.artist_longitude]])
    IN  DropDuplicates(
            Filter(selected,
                   {r \in DOMAIN selected : SqlNeStr(r.artist_id, "")}))

\* ------------------------------------------------------ process_log_data
\* log_data is the sequence of event records in input order.  A frame of it
\* is a function from input positions to rows, so that a row keeps its
\* place in its input partition.

\* mutant of FilterNextSong: the page filter is missing
FilterNextSong_AllPages(log) == [i \in DOMAIN log |-> log[i]]

\* df.filter("page=='NextSong'")
FilterNextSong(log) ==
    [i \in {j \in DOMAIN log : SqlEqStr(log[j].page, "NextSong")} |-> log[i]]

\* the rows of a frame on which the userid_int udf returns
Computable(df) ==
    [i \in {j \in DOMAIN df : ~UseridRaises(df[j].userId)} |-> df[i]]

\* mutant of UdfRaises: the udf swallows the ValueError and the row is
\* dropped
UdfRaises_Swallowed(df) == FALSE

\* some task of a job that evaluates userid_int over df raises
UdfRaises(df) == \E i \in DOMAIN df : UseridRaises(df[i].userId)

create_users_table(df_events) ==
    LET df_users ==
            DropDuplicates(
                BagOver([i \in DOMAIN df_events |->
                            [userId |-> df_events[i].userId,
                             firstName |-> df_events[i].firstName,
                             lastName |-> df_events[i].lastName,
                             gender |-> df_events[i].gender,
                             level |-> df_events[i].level]]))
    IN  Select(df_users,
               [r \in DOMAIN df_users |->
                   [firstName |-> r.firstName, lastName |-> r.lastName,
                    gender |-> r.gender, level |-> r.level,
                    user_id |-> userid_int(r.userId)]])

create_time_table(df_time) ==
    BagOver([i \in DOMAIN df_time |->
                LET date == get_datetime(get_timestamp(df_time[i].ts))
                IN  [start_time |-> df_time[i].ts,
                     hour |-> hour(date),
                     day |-> dayofmonth(date),
                     week |-> weekofyear(date),
                     month |-> month(date),
                     year |-> year(date),
                     weekday |-> weekday(date)]])

\* F.monotonically_increasing_id(): the partition index in the upper bits
\* and the row's rank within its partition in the lower 33 bits, kept here
\* as the pair <<partition, rank>>
monotonically_increasing_id(df, i) ==
    LET part(j) == (j - 1) \div PartitionSize
    IN  <<part(i), Cardinality({j \in DOMAIN df : part(j) = part(i) /\ j < i})>>

create_songplays_dataframe(df_log_data) ==
    BagOver([i \in DOMAIN df_log_data |->
                [songplay_id |-> monotonically_increasing_id(df_log_data, i),
                 start_time |-> df_log_data[i].ts,
                 user_id |-> userid_int(df_log_data[i].userId),
                 level |-> df_log_data[i].level,
                 length |-> df_log_data[i].length,
                 song |-> df_log_data[i].song,
                 artist |-> df_log_data[i].artist,
                 session_id |-> df_log_data[i].sessionId,
                 location |-> df_log_data[i].location,
                 user_agent |-> df_log_data[i].userAgent]])

\* spark.read of songs/*/*/*/ : the partition columns year and artist_id
\* come back from the directory names, last in the row; an empty string
\* was written to the default partition and comes back null
ReadSongs(stored) ==
    Select(stored,
           [r \in DOMAIN stored |->
               [song_id |-> r.song_id, title |-> r.title,
                duration |-> r.duration, year |-> r.year,
                artist_id |-> IF r.artist_id = "" THEN NULL
                              ELSE r.artist_id]])

\* the glob songs/*/*/*/ matches no partition directory of an empty table
ReadSongsRaises(stored) == DOMAIN stored = {}

ReadArtists(stored) == stored

NullSong ==
    [song_id |-> NULL, title |-> NULL, duration |-> NullNum,
     year |-> NullNum, artist_id |-> NULL]

NullArtist ==
    [artist_id |-> NULL, name |-> NULL, location |-> NULL,
     lattitude |-> NullNum, longitude |-> NullNum]

\* mutant of JoinSongs: JOIN instead of LEFT JOIN
JoinSongs_Inner(joined, songs) ==
    InnerJoin(joined, songs,
              {p \in (DOMAIN joined) \X (DOMAIN songs) :
                  /\ SqlEqStr(p[1][1].song, p[2].title)
                  /\ SqlEqNum(p[1][1].length, p[2].duration)})

\* FROM songplay JOIN time ON songplay.start_time = time.start_time
JoinTime(songplay, time) ==
    InnerJoin(songplay, time,
              {p \in (DOMAIN songplay) \X (DOMAIN time) :
                  SqlEqNum(p[1].start_time, p[2].start_time)})

\* LEFT JOIN songs on songplay.song = songs.title
\*     AND songplay.length = songs.duration
JoinSongs(joined, songs) ==
    LeftJoin(joined, songs,
             {p \in (DOMAIN joined) \X (DOMAIN songs) :
                 /\ SqlEqStr(p[1][1].song, p[2].title)
                 /\ SqlEqNum(p[1][1].length, p[2].duration)},
             NullSong)

\* LEFT JOIN artists ON songplay.artist = artists.name
\*     AND songs.artist_id = artists.artist_id
JoinArtists(joined, artists) ==
    LeftJoin(joined, artists,
             {p \in (DOMAIN joined) \X (DOMAIN artists) :
                 /\ SqlEqStr(p[1][1][1].artist, p[2].name)
                 /\ SqlEqStr(p[1][2].artist_id, p[2].artist_id)},
             NullArtist)

\* mutant of SelectSongplays: artist_id taken from artists, not songs
SelectSongplays_ArtistsId(q) ==
    [songplay_id |-> q[1][1][1].songplay_id,
     start_time |-> q[1][1][1].start_time,
     user_id |-> q[1][1][1].user_id,
     level |-> q[1][1][1].level,
     length |-> q[1][1][1].length,
     session_id |-> q[1][1][1].session_id,
     location |-> q[1][1][1].location,
     user_agent |-> q[1][1][1].user_agent,
     artist_id |-> q[2].artist_id,
     song_id |-> q[1][2].song_id,
     year |-> q[1][1][2].year,
     month |-> q[1][1][2].month]

\* the SELECT list, over a row <<<<<<songplay, time>>, songs>>, artists>>
SelectSongplays(q) ==
    [songplay_id |-> q[1][1][1].songplay_id,
     start_time |-> q[1][1][1].start_time,
     user_id |-> q[1][1][1].user_id,
     level |-> q[1][1][1].level,
     length |-> q[1][1][1].length,
     session_id |-> q[1][1][1].session_id,
     location |-> q[1][1][1].location,
     user_agent |-> q[1][1][1].user_agent,
     artist_id |-> q[1][2].artist_id,
     song_id |-> q[1][2].song_id,
     year |-> q[1][1][2].year,
     month |-> q[1][1][2].month]

songplays_table(songplay, time, songs, artists) ==
    LET joined ==
            JoinArtists(JoinSongs(JoinTime(songplay, time), songs), artists)
    IN  Select(joined, [q \in DOMAIN joined |-> SelectSongplays(q)])

\* ------------------------------------------------------------ the inputs
SongIds == {"S1", "", NULL}
ArtistIds == {"A1", "", NULL}
Locations == {"L1", "L2"}

SongRecord(sid, aid, loc) ==
    [song_id |-> sid, title |-> "T1", year |-> 2000, duration |-> 21050000,
     artist_id |-> aid, artist_name |-> "N1", artist_location |-> loc,
     artist_lattitude |-> NullNum, artist_longitude |-> NullNum]

SongRecords ==
    {SongRecord(sid, aid, loc) :
        sid \in SongIds, aid \in ArtistIds, loc \in Locations}

UserIds == {<<"1">>, <<" ", "1">>, <<"x">>}
Pages == {"NextSong", "Home"}
Timestamps == {1732796, 28801000}

EventRecord(uid, page, ts, song, artist) ==
    [userId |-> uid, firstName |-> "F", lastName |-> "L", gender |-> "M",
     level |-> "free", ts |-> ts, song |-> song, artist |-> artist,
     length |-> 21050000, sessionId |-> 7, location |-> "X",
     userAgent |-> "UA", page |-> page]

EventRecords ==
    {EventRecord(uid, page, ts, "T1", "N1") :
        uid \in UserIds, page \in Pages, ts \in Timestamps}

BSeq(S, n) == UNION {[1..k -> S] : k \in 0..n}

SeqToBag(s) == BagOver(s)

BagsOf(S, n) == {SeqToBag(s) : s \in BSeq(S, n)}

\* ------------------------------------------------------------- the state
VARIABLES
    song_data,    \* the bag of song records under input_data
    log_data,     \* the sequence of event records under input_data
    storage,      \* output_data: the table stored at each of the five paths
    pc,           \* position of the run in main
    failed,       \* "none", or why the run was aborted
    song_df,      \* what process_log_data read back from songs/
    artists_df    \* what process_log_data read back from artists/

vars == <<song_data, log_data, storage, pc, failed, song_df, artists_df>>

\* what the previous run left under output_data
PrevStorage ==
    [songs |-> SetToBag({[song_id |-> "S0", title |-> "T1", artist_id |-> "A0",
                          year |-> 1999, duration |-> 21050000]}),
     artists |-> SetToBag({[artist_id |-> "A0", name |-> "N1",
                            location |-> "L0", lattitude |-> NullNum,
                            longitude |-> NullNum]}),
     users |-> SetToBag({[firstName |-> "F", lastName |-> "L", gender |-> "M",
                          level |-> "paid", user_id |-> 0]}),
     time |-> SetToBag({[start_time |-> 0, hour |-> 16, day |-> 31,
                         week |-> 1, month |-> 12, year |-> 1969,
                         weekday |-> "Wed"]}),
     songplays |-> SetToBag({[songplay_id |-> <<0, 0>>, start_time |-> 0,
                              user_id |-> 0, level |-> "paid",
                              length |-> 21050000, session_id |-> 1,
                              location |-> "X", user_agent |-> "UA",
                              artist_id |-> "A0", song_id |-> "S0",
                              year |-> 1969, month |-> 12]})]

\* the statements of a run that touch storage, in program order
process_song_data == <<"write_songs", "write_artists">>

process_log_data ==
    <<"write_users", "write_time", "read_songs", "read_artists",
      "write_songplays">>

\* mutant of main: the two calls are swapped
main_LogFirst == process_log_data \o process_song_data

main == process_song_data \o process_log_data

Stage == IF pc <= Len(main) THEN main[pc] ELSE "done"

\* mutant of Running: a handler swallows the exception and the run goes on
Running_Regardless == TRUE

\* no statement of main catches an exception: once one is raised the
\* process exits and nothing further runs
Running == failed = "none"

df == FilterNextSong(log_data)

InitOn(songs, events) ==
    /\ song_data \in songs
    /\ log_data \in events
    /\ storage = PrevStorage
    /\ pc = 1
    /\ failed = "none"
    /\ song_df = EmptyBag
    /\ artists_df = EmptyBag

\* ----------------------------------------------------------- the actions
WriteStages ==
    {"write_songs", "write_artists", "write_users", "write_time",
     "write_songplays"}

\* the path a write stage overwrites
TableOf(stage) ==
    CASE stage = "write_songs" -> "songs"
      [] stage = "write_artists" -> "artists"
      [] stage = "write_users" -> "users"
      [] stage = "write_time" -> "time"
      [] stage = "write_songplays" -> "songplays"

\* the rows the job of a write stage computes; a row on which a udf raises
\* is never computed
Pending(stage) ==
    CASE stage = "write_songs" -> songs_table(song_data)
      [] stage = "write_artists" -> artists_table(song_data)
      [] stage = "write_users" -> create_users_table(Computable(df))
      [] stage = "write_time" -> create_time_table(df)
      [] stage = "write_songplays" ->
            songplays_table(create_songplays_dataframe(Computable(df)),
                            create_time_table(df), song_df, artists_df)

\* DataFrameWriter.parquet(path, 'overwrite') of a job that succeeds
Overwrite(stage) ==
    /\ Running
    /\ Stage = stage
    /\ storage' = [storage EXCEPT ![TableOf(stage)] = Pending(stage)]
    /\ pc' = pc + 1
    /\ UNCHANGED <<song_data, log_data, failed, song_df, artists_df>>

WriteSongs == Overwrite("write_songs")

WriteArtists == Overwrite("write_artists")

WriteUsers == ~UdfRaises(df) /\ Overwrite("write_users")

WriteTime == Overwrite("write_time")

ReadSongsBack ==
    /\ Running
    /\ Stage = "read_songs"
    /\ ~ReadSongsRaises(storage.songs)
    /\ song_df' = ReadSongs(storage.songs)
    /\ pc' = pc + 1
    /\ UNCHANGED <<song_data, log_data, storage, failed, artists_df>>

ReadArtistsBack ==
    /\ Running
    /\ Stage = "read_artists"
    /\ artists_df' = ReadArtists(storage.artists)
    /\ pc' = pc + 1
    /\ UNCHANGED <<song_data, log_data, storage, failed, song_df>>

WriteSongplays == ~UdfRaises(df) /\ Overwrite("write_songplays")

\* what a failed job leaves at its path: the committer (algorithm version
\* 2) moves each finished task's files into place at once, so any part of
\* the rows may be there
Abort(stage, reason, leftovers) ==
    /\ Running
    /\ Stage = stage
    /\ failed' = reason
    /\ IF stage \in WriteStages
       THEN \E left \in leftovers :
                storage' = [storage EXCEPT ![TableOf(stage)] = left]
       ELSE UNCHANGED storage
    /\ UNCHANGED <<song_data, log_data, pc, song_df, artists_df>>

\* int(x.strip()) raises inside a task: the old table is already deleted
UdfFails ==
    \E stage \in {"write_users", "write_songplays"} :
        /\ UdfRaises(df)
        /\ Abort(stage, "udf", SubBag(Pending(stage)))

\* the glob of the songs read-back matches nothing
PathFails ==
    /\ ReadSongsRaises(storage.songs)
    /\ Abort("read_songs", "path", {})

\* the store is unreachable or denies access, at any statement
StorageFails ==
    \E stage \in WriteStages \cup {"read_songs", "read_artists"} :
        /\ Stage = stage
        /\ Abort(stage, "io",
                 IF stage \in WriteStages
                 THEN {storage[TableOf(stage)]} \cup SubBag(Pending(stage))
                 ELSE {})

Next ==
    \/ WriteSongs
    \/ WriteArtists
    \/ WriteUsers
    \/ WriteTime
    \/ ReadSongsBack
    \/ ReadArtistsBack
    \/ WriteSongplays
    \/ UdfFails
    \/ PathFails
    \/ StorageFails

\* ------------------------------------------------------ specifications
\* Spec: a few song and event records of each kind that matters to the
\* songplays join
SongSample ==
    {SongRecord("S1", "A1", "L1"), SongRecord("S1", "A1", "L2"),
     SongRecord("S2", NULL, "L1"), SongRecord("S2", "", "L1"),
     SongRecord("", "", "L1")}

EventSample ==
    {EventRecord(<<"1">>, "NextSong", 1732796, "T1", "N1"),
     EventRecord(<<"1">>, "NextSong", 1732796, "T2", "N1"),
     EventRecord(<<"1">>, "NextSong", 28801000, "T1", "N2"),
     EventRecord(<<"1">>, "Home", 28801000, "T2", "N1"),
     EventRecord(<<"x">>, "NextSong", 1732796, "T1", "N1")}

Init == InitOn(BagsOf(SongSample, MaxSongs), BSeq(EventSample, MaxEvents))

Spec == Init /\ [][Next]_vars

\* SpecSong: every kind of song record, with at most one event
InitSong ==
    InitOn(BagsOf(SongRecords, MaxSongs),
           BSeq({EventRecord(<<"1">>, "NextSong", 1732796, "T1", "N1"),
                 EventRecord(<<"x">>, "NextSong", 1732796, "T1", "N1")}, 1))

SpecSong == InitSong /\ [][Next]_vars

\* SpecLog: every kind of event record, with at most one song record
InitLog ==
    InitOn(BagsOf({SongRecord("S1", "A1", "L1")}, 1),
           BSeq(EventRecords, MaxEvents))

SpecLog == InitLog /\ [][Next]_vars

\* ------------------------------------------------------------ the claims
IsPrev(table) == storage[table] = PrevStorage[table]

NextSongEvents == {i \in DOMAIN log_data : log_data[i].page = "NextSong"}

\* the songplays rows that carry the songplay_id given to event i
FactRowsOf(i) ==
    {r \in DOMAIN storage.songplays :
        r.songplay_id = monotonically_increasing_id(df, i)}

\* the events whose songplay_id a songplays row carries
EventsOf(r) ==
    {i \in NextSongEvents :
        r.songplay_id = monotonically_increasing_id(df, i)}

C2_UsersRowsDistinct ==
    ~IsPrev("users") => \A r \in DOMAIN storage.users : storage.users[r] = 1

\* C3: if a NextSong event has a userId that is not numeric once trimmed,
\* the run fails: it never gets past the users write, no time or songplays
\* table is written, the users table is never written in full, and every
\* user_id at the users path is an integer parsed from a numeric userId.
C3_NonNumericUserIdAbortsRun ==
    (\E i \in NextSongEvents : IntRaises(strip(log_data[i].userId))) =>
        /\ Stage \in {"write_songs", "write_artists", "write_users"}
        /\ IsPrev("time")
        /\ IsPrev("songplays")
        /\ Stage = "write_users" /\ ~IsPrev("users") => failed # "none"
        /\ \A r \in DOMAIN storage.users :
            /\ r.user_id \in Int
            /\ ~IsPrev("users") =>
                \E i \in NextSongEvents :
                    /\ ~IntRaises(strip(log_data[i].userId))
                    /\ r.user_id = int(strip(log_data[i].userId))

\* C3 witness: the users job failed on a non-numeric userId after the row
\* of a numeric one had been committed.
C3_Witness ==
    /\ failed = "udf"
    /\ Stage = "write_users"
    /\ \E i \in NextSongEvents : log_data[i].userId = <<"x">>
    /\ Count(storage.users) = 1
    /\ ~IsPrev("users")

\* C4: every row of the users, time and songplays output comes from an
\* event whose page is "NextSong".
C4_OnlyNextSongEventsReachOutput ==
    /\ ~IsPrev("users") =>
         \A r \in DOMAIN storage.users :
            \E i \in NextSongEvents :
                /\ ~IntRaises(strip(log_data[i].userId))
                /\ r = [firstName |-> log_data[i].firstName,
                        lastName |-> log_data[i].lastName,
                        gender |-> log_data[i].gender,
                        level |-> log_data[i].level,
                        user_id |-> int(strip(log_data[i].userId))]
    /\ ~IsPrev("time") =>
         \A r \in DOMAIN storage.time :
            \E i \in NextSongEvents : r.start_time = log_data[i].ts
    /\ ~IsPrev("songplays") =>
         \A r \in DOMAIN storage.songplays :
            \E i \in NextSongEvents :
                /\ r.start_time = log_data[i].ts
                /\ r.user_id = int(strip(log_data[i].userId))
                /\ r.session_id = log_data[i].sessionId

\* C4 witness: a completed run over an event of another page and a
\* NextSong event that differ in userId and in ts.
C4_Witness ==
    /\ failed = "none"
    /\ Stage = "done"
    /\ \E i, j \in DOMAIN log_data :
        /\ log_data[i].page = "Home"
        /\ log_data[j].page = "NextSong"
        /\ log_data[i].ts # log_data[j].ts
        /\ log_data[i].userId = <<"x">>
    /\ Count(storage.users) = 1
    /\ Count(storage.time) = 1
    /\ Count(storage.songplays) = 1

\* the rows of a stored songs table that an event matches on title and
\* duration
SongMatches(e, songs) ==
    {s \in DOMAIN songs :
        /\ e.song # NULL /\ s.title = e.song
        /\ e.length # NullNum /\ s.duration = e.length}

\* C5: after a run, every NextSong event has at least one songplays row;
\* its rows have song_id and artist_id null when no songs row has its
\* title and length, and for a songs row that has them and whose artist_id
\* is that of an artists row named as the event's artist, one of its rows
\* carries that song's song_id and artist_id, both non-null.
C5_EveryPlayKeptAndEnriched ==
    Stage = "done" =>
        \A i \in NextSongEvents :
            LET e == log_data[i]
                matches == SongMatches(e, storage.songs)
            IN  /\ FactRowsOf(i) # {}
                /\ matches = {} =>
                     \A r \in FactRowsOf(i) :
                        r.song_id = NULL /\ r.artist_id = NULL
                /\ \A s \in matches :
                     (\E a \in DOMAIN storage.artists :
                         a.name = e.artist /\ a.artist_id = s.artist_id) =>
                     \E r \in FactRowsOf(i) :
                        /\ r.song_id = s.song_id /\ r.song_id # NULL
                        /\ r.artist_id = s.artist_id /\ r.artist_id # NULL

\* C5 witness: a completed run with an event that matches no song, whose
\* row has null keys, and an event that matches song S1 of artist A1.
C5_Witness ==
    /\ Stage = "done"
    /\ \E i, j \in NextSongEvents :
        /\ SongMatches(log_data[i], storage.songs) = {}
        /\ \E r \in FactRowsOf(i) : r.song_id = NULL /\ r.artist_id = NULL
        /\ log_data[j].artist = "N1"
        /\ \E r \in FactRowsOf(j) : r.song_id = "S1" /\ r.artist_id = "A1"

\* C6: each songplay candidate row finds exactly one row of the time table
\* with its start_time, also when two events share a ts.
C6_EachPlayFindsOneTimeRow ==
    Stage = "done" =>
        \A i \in NextSongEvents :
            SumOver({t \in DOMAIN storage.time :
                        t.start_time = log_data[i].ts}, storage.time) = 1

\* C7: no two rows of the written songplays table carry the same
\* songplay_id.
C7_SongplayIdUnique ==
    Stage = "done" =>
        \A r \in DOMAIN storage.songplays :
            /\ storage.songplays[r] = 1
            /\ \A q \in DOMAIN storage.songplays :
                q.songplay_id = r.songplay_id => q = r

LogStages == {process_log_data[k] : k \in DOMAIN process_log_data}

\* C8: whenever the run is at a statement of process_log_data, or past it,
\* the songs and artists tables in storage are the ones this run computed
\* from its song records, and what was read back for the join is read from
\* them; while it is at a statement of process_song_data no log table has
\* been touched.
C8_SongsWrittenBeforeLogProcessing ==
    /\ Stage \in LogStages \cup {"done"} =>
        /\ storage.songs = songs_table(song_data)
        /\ storage.artists = artists_table(song_data)
    /\ Stage \in {"read_artists", "write_songplays", "done"} =>
        /\ DOMAIN song_df = {[song_id |-> r.song_id, title |-> r.title,
                              duration |-> r.duration, year |-> r.year,
                              artist_id |-> IF r.artist_id = "" THEN NULL
                                            ELSE r.artist_id] :
                                r \in DOMAIN songs_table(song_data)}
        /\ "S0" \notin {r.song_id : r \in DOMAIN song_df}
    /\ Stage \in {"write_songplays", "done"} =>
        artists_df = artists_table(song_data)
    /\ Stage \notin LogStages \cup {"done"} =>
        IsPrev("users") /\ IsPrev("time") /\ IsPrev("songplays")

\* C8 witness: a completed run whose songplays row carries the id of a song
\* that this run wrote.
C8_Witness ==
    /\ Stage = "done"
    /\ failed = "none"
    /\ \E r \in DOMAIN storage.songplays : r.song_id = "S2"
    /\ \E r \in DOMAIN song_data : r.song_id = "S2"

\* C9: once a statement fails no step is taken any more; the tables of the write
\* statements before the failing one hold this run's data and the tables
\* of the write statements after it still hold the previous run's data.
C9_FailureAbortsAndLeavesTablesMixed ==
    /\ [][failed = "none"]_vars
    /\ [](failed # "none" =>
            /\ pc \in DOMAIN main
            /\ \A k \in DOMAIN main :
                main[k] \in WriteStages =>
                    /\ k < pc => storage[TableOf(main[k])] = Pending(main[k])
                    /\ k > pc => IsPrev(TableOf(main[k])))

\* C9 witness: the time write failed, so songs, artists and users are new
\* while songplays is the previous run's.
C9_Witness ==
    /\ failed = "io"
    /\ Stage = "write_time"
    /\ ~IsPrev("songs") /\ ~IsPrev("artists") /\ ~IsPrev("users")
    /\ storage.users = create_users_table(df)
    /\ Count(storage.users) = 1
    /\ IsPrev("songplays")

\* the rows of the read-back songs table that a songplays row's event
\* matches in the join
JoinedSongs(r) ==
    {s \in DOMAIN song_df :
        \E i \in EventsOf(r) :
            /\ SqlEqStr(log_data[i].song, s.title)
            /\ SqlEqNum(log_data[i].length, s.duration)}

\* C10 as stated: the artist_id of every songplays row is that of a songs
\* row matched on title and duration, and is null iff no songs row
\* matched.
C10_ArtistIdNullIffNoSongMatched ==
    Stage = "done" =>
        \A r \in DOMAIN storage.songplays :
            /\ r.artist_id = NULL <=> JoinedSongs(r) = {}
            /\ JoinedSongs(r) # {} =>
                \E s \in JoinedSongs(r) :
                    r.artist_id = s.artist_id /\ r.song_id = s.song_id

\* the songplays query without its join against artists
SongplaysWithoutArtists ==
    LET joined ==
            JoinSongs(JoinTime(create_songplays_dataframe(df),
                               create_time_table(df)), song_df)
    IN  Select(joined,
               [q \in DOMAIN joined |->
                   [songplay_id |-> q[1][1].songplay_id,
                    start_time |-> q[1][1].start_time,
                    user_id |-> q[1][1].user_id,
                    level |-> q[1][1].level,
                    length |-> q[1][1].length,
                    session_id |-> q[1][1].session_id,
                    location |-> q[1][1].location,
                    user_agent |-> q[1][1].user_agent,
                    artist_id |-> q[2].artist_id,
                    song_id |-> q[2].song_id,
                    year |-> q[1][2].year,
                    month |-> q[1][2].month]])

\* C10 amended: the artist_id and song_id of every songplays row are those
\* of a songs row, as read back, matched on title and duration, and are
\* null when no songs row matched (artist_id is also null when the matched
\* songs row has none); the join against artists changes no row, only how
\* often a row is emitted.
C10_ArtistsJoinChangesOnlyMultiplicity ==
    Stage = "done" =>
        /\ \A r \in DOMAIN storage.songplays :
            /\ JoinedSongs(r) = {} =>
                r.artist_id = NULL /\ r.song_id = NULL
            /\ JoinedSongs(r) # {} =>
                \E s \in JoinedSongs(r) :
                    r.artist_id = s.artist_id /\ r.song_id = s.song_id
        /\ DOMAIN storage.songplays = DOMAIN SongplaysWithoutArtists
        /\ \A r \in DOMAIN storage.songplays :
            storage.songplays[r] >= SongplaysWithoutArtists[r]

\* C10 witness: a completed run in which an event matched a song whose
\* artist is in the artists table under another name than the event's, and
\* the row still carries that song's artist_id.
C10_Witness ==
    /\ Stage = "done"
    /\ \E r \in DOMAIN storage.songplays :
        /\ r.artist_id = "A1"
        /\ \E i \in EventsOf(r) : log_data[i].artist = "N2"
        /\ \E a \in DOMAIN artists_df : a.artist_id = "A1" /\ a.name = "N1"

====
